---------------------------- MODULE Spec2Model ----------------------------
(***************************************************************************)
(* A model of the two stages of MPIpe:                                     *)
(*   generate_bids_config.py  scan_source, categorise, parse_task_renames, *)
(*                            apply_task_renames, main                     *)
(*   copy2bids.py             normalize_stem, parse_sequence,              *)
(*                            parse_modality, parse_run, copy_file,        *)
(*                            copy_section_list, main                      *)
(*                                                                         *)
(* Python strings are sequences of one-character strings, so that the      *)
(* regular expressions, split(), lower() and the natural sort are computed *)
(* character by character as the code computes them.  A Python dict is a   *)
(* sequence of [k, v] records in insertion order.                          *)
(***************************************************************************)
EXTENDS Integers, Sequences, FiniteSets, TLC

(***************************************************************************)
(* Bounds of the model.                                                    *)
(***************************************************************************)
MaxFiles == 3        \* files under the source root
MaxRenames == 2      \* --task-rename arguments on the command line
MaxStems == 3        \* stems of a hand-written flat mapping, all sections
MaxCopyStems == 2    \* stems of a mapping placed over an old destination
MaxPasses == 2       \* runs of copy2bids over the same destination

(***************************************************************************)
(* Characters and strings.                                                 *)
(***************************************************************************)
\* the characters the model's strings use, in code-point order
Ascii ==
  << " ", "-", ".", "0", "1", "2", "3", "4", "5", "6", "7", "8", "9", "=",
     "A", "B", "C", "D", "E", "F", "G", "H", "I", "J", "K", "L", "M", "N",
     "O", "P", "Q", "R", "S", "T", "U", "V", "W", "X", "Y", "Z", "_",
     "a", "b", "c", "d", "e", "f", "g", "h", "i", "j", "k", "l", "m", "n",
     "o", "p", "q", "r", "s", "t", "u", "v", "w", "x", "y", "z" >>

Chars == {Ascii[k] : k \in 1..Len(Ascii)}

\* ord(c), up to the order it induces
Ord == [c \in Chars |-> CHOOSE k \in 1..Len(Ascii) : Ascii[k] = c]

DigitChars == {"0", "1", "2", "3", "4", "5", "6", "7", "8", "9"}

\* str.isdigit on one character
IsDigit(c) == c \in DigitChars

\* int(c) of a digit
DigitVal(c) == Ord[c] - Ord["0"]

UpperChars == {Ascii[k] : k \in Ord["A"]..Ord["Z"]}

LowerChars == {Ascii[k] : k \in Ord["a"]..Ord["z"]}

\* str.lower on one character
LowerChar(c) == IF c \in UpperChars THEN Ascii[Ord[c] - Ord["A"] + Ord["a"]] ELSE c

\* str.lower
Lower(s) == [k \in 1..Len(s) |-> LowerChar(s[k])]

\* s[a:b] with 1-based inclusive bounds; empty when a > b
Slice(s, a, b) == IF a > b THEN << >> ELSE SubSeq(s, a, b)

\* the literal lit stands at position p of s
At(s, lit, p) ==
  /\ p >= 1
  /\ p + Len(lit) - 1 <= Len(s)
  /\ \A k \in 1..Len(lit) : s[p + k - 1] = lit[k]

\* lit in s
Contains(s, lit) == \E p \in 1..(Len(s) - Len(lit) + 1) : At(s, lit, p)

\* re.search of a literal under (?i)
SearchI(s, lit) == Contains(Lower(s), Lower(lit))

\* s.startswith(lit)
StartsWith(s, lit) == At(s, lit, 1)

\* s.endswith(lit)
EndsWith(s, lit) == At(s, lit, Len(s) - Len(lit) + 1)

\* s.find(c) for a character, 0 when absent
FindChar(s, c) ==
  IF \E p \in 1..Len(s) : s[p] = c
  THEN CHOOSE p \in 1..Len(s) : s[p] = c /\ \A q \in 1..(p - 1) : s[q] # c
  ELSE 0

\* s.rfind(c) for a character, 0 when absent
RFindChar(s, c) ==
  IF \E p \in 1..Len(s) : s[p] = c
  THEN CHOOSE p \in 1..Len(s) : s[p] = c /\ \A q \in (p + 1)..Len(s) : s[q] # c
  ELSE 0

RECURSIVE Split(_, _)
\* s.split(c): always at least one piece
Split(s, c) ==
  LET p == FindChar(s, c)
  IN  IF p = 0 THEN << s >>
      ELSE << Slice(s, 1, p - 1) >> \o Split(Slice(s, p + 1, Len(s)), c)

\* f"{n:02d}"
Fmt02(n) ==
  IF n < 100
  THEN << Ascii[Ord["0"] + (n \div 10)], Ascii[Ord["0"] + (n % 10)] >>
  ELSE << Ascii[Ord["0"] + (n \div 100)], Ascii[Ord["0"] + ((n \div 10) % 10)],
          Ascii[Ord["0"] + (n % 10)] >>

\* f"run-{n:02d}"
RunLabel(n) == << "r", "u", "n", "-" >> \o Fmt02(n)

(***************************************************************************)
(* Python dicts: insertion-ordered sequences of [k |-> key, v |-> value].  *)
(***************************************************************************)
DictHas(d, key) == \E j \in 1..Len(d) : d[j].k = key

DictIdx(d, key) == CHOOSE j \in 1..Len(d) : d[j].k = key

DictGet(d, key) == d[DictIdx(d, key)].v

\* d.get(key, dflt)
DictGetOr(d, key, dflt) == IF DictHas(d, key) THEN DictGet(d, key) ELSE dflt

\* d[key] = val: a present key keeps its place
DictSet(d, key, val) ==
  IF DictHas(d, key)
  THEN [d EXCEPT ![DictIdx(d, key)] = [k |-> key, v |-> val]]
  ELSE Append(d, [k |-> key, v |-> val])

\* d without key (the dict after d.pop(key))
DictDel(d, key) ==
  LET j == DictIdx(d, key)
  IN  Slice(d, 1, j - 1) \o Slice(d, j + 1, Len(d))

\* list(d): iterating a dict yields its keys
DictKeys(d) == [j \in 1..Len(d) |-> d[j].k]

DictValues(d) == [j \in 1..Len(d) |-> d[j].v]

\* the elements of a sequence
Range(s) == {s[j] : j \in 1..Len(s)}

(***************************************************************************)
(* String literals of the source.                                          *)
(***************************************************************************)
S_nii == << ".", "n", "i", "i" >>

S_nii_gz == << ".", "n", "i", "i", ".", "g", "z" >>

S_gz == << ".", "g", "z" >>

S_json == << ".", "j", "s", "o", "n" >>

S_T1 == << "T", "1" >>

S_ADNI == << "A", "D", "N", "I" >>

S_MPRAGE == << "M", "P", "R", "A", "G", "E" >>

S_MP2RAGE == << "M", "P", "2", "R", "A", "G", "E" >>

S_me4 == << "m", "e", "4" >>

S_bold == << "b", "o", "l", "d" >>

S_field == << "f", "i", "e", "l", "d" >>

S_gre == << "g", "r", "e" >>

S_localizer == << "l", "o", "c", "a", "l", "i", "z", "e", "r" >>

S_scout == << "s", "c", "o", "u", "t" >>

S_SBRef == << "S", "B", "R", "e", "f" >>

S_e1 == << "e", "1" >>

S_ph == << "p", "h" >>

S_phase == << "p", "h", "a", "s", "e" >>

S_task == << "t", "a", "s", "k" >>

S_T1w == << "T", "1", "w" >>

S_magnitude1 == << "m", "a", "g", "n", "i", "t", "u", "d", "e", "1" >>

S_phase1 == << "p", "h", "a", "s", "e", "1" >>

S_phase2 == << "p", "h", "a", "s", "e", "2" >>

S_sbref == << "s", "b", "r", "e", "f" >>

(***************************************************************************)
(* The file names the source root may hold.                                *)
(***************************************************************************)
\* T1.nii.gz
F_T1 ==
  << "T", "1", ".", "n", "i", "i", ".", "g", "z" >>

\* gre_T1.nii
F_gre_T1 ==
  << "g", "r", "e", "_", "T", "1", ".", "n", "i", "i" >>

\* task-rest_bold.nii
F_rest ==
  << "t", "a", "s", "k", "-", "r", "e", "s", "t", "_", "b", "o", "l", "d", ".", "n", "i", "i" >>

\* task-rest_bold.nii.gz
F_rest_gz ==
  << "t", "a", "s", "k", "-", "r", "e", "s", "t", "_", "b", "o", "l", "d", ".", "n", "i", "i", ".", "g", "z" >>

\* task-Motor_bold.nii
F_motor ==
  << "t", "a", "s", "k", "-", "M", "o", "t", "o", "r", "_", "b", "o", "l", "d", ".", "n", "i", "i" >>

\* rest_bold_SBRef.nii
F_sbref ==
  << "r", "e", "s", "t", "_", "b", "o", "l", "d", "_", "S", "B", "R", "e", "f", ".", "n", "i", "i" >>

\* task_bold.nii
F_task_bold ==
  << "t", "a", "s", "k", "_", "b", "o", "l", "d", ".", "n", "i", "i" >>

\* gre_bold.nii
F_gre_bold ==
  << "g", "r", "e", "_", "b", "o", "l", "d", ".", "n", "i", "i" >>

\* localizer_T1.nii
F_localizer ==
  << "l", "o", "c", "a", "l", "i", "z", "e", "r", "_", "T", "1", ".", "n", "i", "i" >>

\* gre_e2_ph.nii
F_gre_ph ==
  << "g", "r", "e", "_", "e", "2", "_", "p", "h", ".", "n", "i", "i" >>

\* 5_gre_e2.nii
F_5_gre ==
  << "5", "_", "g", "r", "e", "_", "e", "2", ".", "n", "i", "i" >>

\* 9_gre_e2.nii
F_9_gre ==
  << "9", "_", "g", "r", "e", "_", "e", "2", ".", "n", "i", "i" >>

\* dwi.nii
F_dwi ==
  << "d", "w", "i", ".", "n", "i", "i" >>

\* a_SBRef.nii.gz
F_a_sbref ==
  << "a", "_", "S", "B", "R", "e", "f", ".", "n", "i", "i", ".", "g", "z" >>

FileUniverse ==
  { F_T1, F_gre_T1, F_rest, F_rest_gz, F_motor,
    F_sbref, F_task_bold, F_gre_bold, F_localizer, F_gre_ph,
    F_5_gre, F_9_gre, F_dwi, F_a_sbref }

(***************************************************************************)
(* generate_bids_config.py: the Source Scanner.                            *)
(***************************************************************************)
RECURSIVE IntOf(_)
\* int("".join(g)) of a group of digits
IntOf(g) ==
  IF g = << >> THEN 0
  ELSE 10 * IntOf(Slice(g, 1, Len(g) - 1)) + DigitVal(g[Len(g)])

\* the length of the first group itertools.groupby(text, str.isdigit) yields
FirstGroupLen(text) ==
  CHOOSE m \in 1..Len(text) :
    /\ \A k \in 1..m : IsDigit(text[k]) = IsDigit(text[1])
    /\ m = Len(text) \/ IsDigit(text[m + 1]) # IsDigit(text[1])

RECURSIVE natural_sort_key(_)
\* a list of int (a group of digits) and str (any other group)
natural_sort_key(text) ==
  IF text = << >> THEN << >>
  ELSE LET m == FirstGroupLen(text)
           g == Slice(text, 1, m)
           e == IF IsDigit(text[1])
                THEN [int |-> TRUE, n |-> IntOf(g), s |-> << >>]
                ELSE [int |-> FALSE, n |-> 0, s |-> g]
       IN  << e >> \o natural_sort_key(Slice(text, m + 1, Len(text)))

RECURSIVE StrLess(_, _)
\* a < b on Python strings: by code point, a proper prefix is less
StrLess(a, b) ==
  IF b = << >> THEN FALSE
  ELSE IF a = << >> THEN TRUE
  ELSE IF a[1] # b[1] THEN Ord[a[1]] < Ord[b[1]]
  ELSE StrLess(Tail(a), Tail(b))

RECURSIVE KeyCmp(_, _)
\* a < b on two keys, as Python compares lists: at the first pair of unequal
\* elements; "err" is the TypeError of comparing an int with a str
KeyCmp(a, b) ==
  IF a = << >> /\ b = << >> THEN "eq"
  ELSE IF a = << >> THEN "lt"
  ELSE IF b = << >> THEN "gt"
  ELSE IF a[1] = b[1] THEN KeyCmp(Tail(a), Tail(b))
  ELSE IF a[1].int # b[1].int THEN "err"
  ELSE IF a[1].int THEN (IF a[1].n < b[1].n THEN "lt" ELSE "gt")
  ELSE IF StrLess(a[1].s, b[1].s) THEN "lt" ELSE "gt"

\* a file under the source root: the folder that holds it and its name
Path(dir, name) == [dir |-> dir, name |-> name]

\* the paths source.rglob("*.nii") and source.rglob("*.nii.gz") yield
Globbed(src) == {f \in src : EndsWith(f.name, S_nii) \/ EndsWith(f.name, S_nii_gz)}

\* sorted() raises TypeError when it compares an int group with a str group
SortRaises(paths) ==
  \E a \in paths, b \in paths :
    KeyCmp(natural_sort_key(a.name), natural_sort_key(b.name)) = "err"

RECURSIVE SortedByKey(_)
\* sorted(paths, key=lambda p: natural_sort_key(p.name)); the names of
\* FileUniverse have pairwise different keys, so the order is determined
SortedByKey(paths) ==
  IF paths = {} THEN << >>
  ELSE LET lo == CHOOSE a \in paths :
                   \A b \in paths \ {a} :
                     KeyCmp(natural_sort_key(a.name), natural_sort_key(b.name)) # "gt"
       IN  << lo >> \o SortedByKey(paths \ {lo})

\* Path.suffix of a file name
PathSuffix(name) ==
  LET p == RFindChar(name, ".")
  IN  IF 1 < p /\ p < Len(name) THEN Slice(name, p, Len(name)) ELSE << >>

\* Path.stem of a file name
PathStem(name) ==
  LET p == RFindChar(name, ".")
  IN  IF 1 < p /\ p < Len(name) THEN Slice(name, 1, p - 1) ELSE name

\* the file name without .nii or .nii.gz
series_id(name) ==
  IF PathSuffix(name) = S_gz /\ EndsWith(name, S_nii_gz)
  THEN Slice(name, 1, Len(name) - 7)
  ELSE PathStem(name)

(***************************************************************************)
(* generate_bids_config.py: the Series Classifier.                         *)
(***************************************************************************)
\* SKIP_PATTERNS.search(fname)
SKIP_PATTERNS(fname) == SearchI(fname, S_localizer) \/ SearchI(fname, S_scout)

\* SBREF_PAT.search(fname)
SBREF_PAT(fname) == SearchI(fname, S_SBRef)

\* GUESS_RULES["anat"]["T1w"].search(fname)
GUESS_anat(fname) ==
  \/ SearchI(fname, S_T1)
  \/ SearchI(fname, S_ADNI)
  \/ SearchI(fname, S_MPRAGE)
  \/ SearchI(fname, S_MP2RAGE)
  \/ SearchI(fname, S_me4)

\* GUESS_RULES["func"]["bold"].search(fname)
GUESS_func(fname) == SearchI(fname, S_bold)

\* GUESS_RULES["fmap"]["gre"].search(fname)
GUESS_fmap(fname) == SearchI(fname, S_field) \/ SearchI(fname, S_gre)

\* the role of a field-map file
FmapKey(fname) ==
  IF SearchI(fname, S_e1) THEN S_magnitude1
  ELSE IF SearchI(fname, S_ph) \/ SearchI(fname, S_phase) THEN S_phase2
  ELSE S_phase1

\* next(t for t in tokens if ...): the first index among hits, the indices
\* of the tokens that pass the test; 0 when there is none (StopIteration)
FirstToken(hits) ==
  IF hits = {} THEN 0 ELSE CHOOSE j \in hits : \A i \in hits : j <= i

\* the task label of a functional file without --force-task:
\* [exc |-> an IndexError was raised, task |-> the label]
HeuristicTask(fname) ==
  LET tokens == Split(fname, "_")
      jt == FirstToken({j \in 1..Len(tokens) : StartsWith(Lower(tokens[j]), S_task)})
      jb == FirstToken({j \in 1..Len(tokens) : Contains(Lower(tokens[j]), S_bold)})
      dash == FindChar(tokens[jt], "-")
      \* tokens[index - 1]: Python's index -1 is the last token
      pre_bold == IF jb = 1 THEN tokens[Len(tokens)] ELSE tokens[jb - 1]
  IN  IF jt # 0
      THEN IF dash = 0
           THEN [exc |-> TRUE, task |-> << >>]
           ELSE [exc |-> FALSE,
                 task |-> Lower(Slice(tokens[jt], dash + 1, Len(tokens[jt])))]
      ELSE [exc |-> FALSE,
            task |-> Lower(IF pre_bold # << >> THEN pre_bold ELSE S_task)]

\* the task label of a functional file
TaskLabel(fname, force) ==
  IF force # << >> THEN [exc |-> FALSE, task |-> Lower(force)]
  ELSE HeuristicTask(fname)

\* mapping.setdefault("anat", {}).setdefault(label, []).append(sid)
AddAnat(mp, label, sid) ==
  LET anat == DictGetOr(mp, "anat", << >>)
      lst == DictGetOr(anat, label, << >>)
  IN  DictSet(mp, "anat", DictSet(anat, label, Append(lst, sid)))

\* mapping.setdefault("func", {}).setdefault(task, {})[run_label] = {"bold": sid}
\* and, with a pending reference, ...[run_label]["sbref"] = pending_sbref[0]
AddFunc(mp, task, run_label, sid, pending) ==
  LET func == DictGetOr(mp, "func", << >>)
      runs == DictGetOr(func, task, << >>)
      bold == << [k |-> S_bold, v |-> sid] >>
      run == IF pending # << >> THEN DictSet(bold, S_sbref, pending[1]) ELSE bold
  IN  DictSet(mp, "func", DictSet(func, task, DictSet(runs, run_label, run)))

\* mapping.setdefault("fmap", {}).setdefault(fmap_type, {})[key] = sid
AddFmap(mp, fmap_type, key, sid) ==
  LET fmap == DictGetOr(mp, "fmap", << >>)
      roles == DictGetOr(fmap, fmap_type, << >>)
  IN  DictSet(mp, "fmap", DictSet(fmap, fmap_type, DictSet(roles, key, sid)))

\* the section the rules give a file name: "skip", "sbref", "anat", "func",
\* "fmap" or "none", the first rule that matches in the order of the loop body
Section(fname) ==
  IF SKIP_PATTERNS(fname) THEN "skip"
  ELSE IF SBREF_PAT(fname) THEN "sbref"
  ELSE IF GUESS_anat(fname) THEN "anat"
  ELSE IF GUESS_func(fname) THEN "func"
  ELSE IF GUESS_fmap(fname) THEN "fmap"
  ELSE "none"

\* categorise_file with the reset of pending_sbref left out: the reference
\* stays pending after it was attached
categorise_file_sticky(st, f, force) ==
  LET fname == f.name
      sid == series_id(fname)
      sec == Section(fname)
      tl == TaskLabel(fname, force)
      n == DictGetOr(st.run_counters, tl.task, 0) + 1
  IN  CASE sec = "skip" -> st
        [] sec = "sbref" -> [st EXCEPT !.pending_sbref = << sid, fname >>]
        [] sec = "anat" -> [st EXCEPT !.mapping = AddAnat(@, S_T1w, sid)]
        [] sec = "func" ->
             IF tl.exc THEN [st EXCEPT !.exc = TRUE]
             ELSE [st EXCEPT
                     !.run_counters = DictSet(@, tl.task, n),
                     !.mapping = AddFunc(@, tl.task, RunLabel(n), sid,
                                         st.pending_sbref)]
        [] sec = "fmap" ->
             [st EXCEPT !.mapping = AddFmap(@, S_gre, FmapKey(fname), sid)]
        [] OTHER -> st

\* one iteration of the loop of categorise over the state
\* st = [mapping, run_counters, pending_sbref, exc], for the path f
categorise_file(st, f, force) ==
  LET fname == f.name
      sid == series_id(fname)
      sec == Section(fname)
      tl == TaskLabel(fname, force)
      n == DictGetOr(st.run_counters, tl.task, 0) + 1
  IN  CASE sec = "skip" -> st
        [] sec = "sbref" -> [st EXCEPT !.pending_sbref = << sid, fname >>]
        [] sec = "anat" -> [st EXCEPT !.mapping = AddAnat(@, S_T1w, sid)]
        [] sec = "func" ->
             IF tl.exc THEN [st EXCEPT !.exc = TRUE]
             ELSE [st EXCEPT
                     !.run_counters = DictSet(@, tl.task, n),
                     !.mapping = AddFunc(@, tl.task, RunLabel(n), sid,
                                         st.pending_sbref),
                     !.pending_sbref = << >>]
        [] sec = "fmap" ->
             [st EXCEPT !.mapping = AddFmap(@, S_gre, FmapKey(fname), sid)]
        [] OTHER -> st

(***************************************************************************)
(* generate_bids_config.py: task renames.                                  *)
(***************************************************************************)
RECURSIVE parse_task_renames(_)
\* [exit |-> sys.exit was called, renames |-> the dict OLD.lower() -> NEW];
\* a later pair with the same OLD replaces the value and keeps the place
parse_task_renames(pairs) ==
  IF pairs = << >> THEN [exit |-> FALSE, renames |-> << >>]
  ELSE LET item == pairs[Len(pairs)]
           before == parse_task_renames(Slice(pairs, 1, Len(pairs) - 1))
           p == FindChar(item, "=")
           old == Slice(item, 1, p - 1)
           new == Slice(item, p + 1, Len(item))
       IN  IF before.exit \/ p = 0 \/ old = << >> \/ new = << >>
           THEN [exit |-> TRUE, renames |-> << >>]
           ELSE [exit |-> FALSE,
                 renames |-> DictSet(before.renames, Lower(old), new)]

\* the warning apply_task_renames prints for a pair
Warning(kind, task) == [kind |-> kind, task |-> task]

\* apply_rename without the test "new in mapping['func']": the run tree of
\* OLD takes the place of the one NEW had
apply_rename_merging(st, old, new) ==
  LET func == DictGet(st.mapping, "func")
  IN  IF ~DictHas(func, old)
      THEN [st EXCEPT !.warnings = Append(@, Warning("not in auto-mapping", old))]
      ELSE [st EXCEPT !.mapping =
              DictSet(@, "func", DictSet(DictDel(func, old), new, DictGet(func, old)))]

\* one iteration of the loop of apply_task_renames over
\* st = [mapping, warnings], for the pair old -> new
apply_rename(st, old, new) ==
  LET func == DictGet(st.mapping, "func")
  IN  IF ~DictHas(func, old)
      THEN [st EXCEPT !.warnings = Append(@, Warning("not in auto-mapping", old))]
      ELSE IF DictHas(func, new)
      THEN [st EXCEPT !.warnings = Append(@, Warning("merge aborted", old))]
      ELSE [st EXCEPT !.mapping =
              DictSet(@, "func", DictSet(DictDel(func, old), new, DictGet(func, old)))]

(***************************************************************************)
(* copy2bids.py: the Token Parsers.                                        *)
(***************************************************************************)
P_vaso == << "v", "a", "s", "o" >>

P_3dbssfp == << "3", "d", "b", "s", "s", "f", "p" >>

P_bssfp == << "b", "s", "s", "f", "p" >>

P_ep2d == << "e", "p", "2", "d" >>

P_2000 == << "2", "0", "0", "0" >>

P_800 == << "8", "0", "0" >>

P_mprage == << "m", "p", "r", "a", "g", "e" >>

P_ep2d_bold_2000 ==
  << "e", "p", "2", "d", "_", "b", "o", "l", "d", "_", "2", "0", "0", "0" >>

P_ep2d_bold_800 ==
  << "e", "p", "2", "d", "_", "b", "o", "l", "d", "_", "8", "0", "0" >>

P_unknownseq == << "u", "n", "k", "n", "o", "w", "n", "s", "e", "q" >>

P_rs == << "r", "s" >>

P_test == << "t", "e", "s", "t" >>

P_prep == << "p", "r", "e", "p" >>

P_run == << "r", "u", "n" >>

\* [a-z0-9] under (?i)
IsAlnum(c) == LowerChar(c) \in LowerChars \/ IsDigit(c)

NotAlnum(c) == ~IsAlnum(c)

\* \w
IsWord(c) == IsAlnum(c) \/ c = "_"

\* \s: the one white-space character of the alphabet
SpaceChars == {" "}

\* [\s_-]
SepChars == SpaceChars \cup {"_", "-"}

\* [^a-z0-9] under (?i)
NotAlnumChars == {c \in Chars : NotAlnum(c)}

\* how many characters of s from position from on are in cls, without a gap
SpanLen(s, from, cls) ==
  CHOOSE n \in 0..(Len(s) - from + 1) :
    /\ \A k \in from..(from + n - 1) : s[k] \in cls
    /\ from + n > Len(s) \/ s[from + n] \notin cls

\* EXT_STRIP.sub("", stem): one trailing .nii.gz, .nii or .json goes
EXT_STRIP(stem) ==
  LET l == Lower(stem)
  IN  IF EndsWith(l, S_nii_gz) THEN Slice(stem, 1, Len(stem) - 7)
      ELSE IF EndsWith(l, S_nii) THEN Slice(stem, 1, Len(stem) - 4)
      ELSE IF EndsWith(l, S_json) THEN Slice(stem, 1, Len(stem) - 5)
      ELSE stem

\* s.strip()
Strip(s) ==
  LET a == SpanLen(s, 1, SpaceChars)
      t == Slice(s, a + 1, Len(s))
      b == CHOOSE n \in 0..Len(t) :
             /\ \A k \in (Len(t) - n + 1)..Len(t) : t[k] \in SpaceChars
             /\ n = Len(t) \/ t[Len(t) - n] \notin SpaceChars
  IN  Slice(t, 1, Len(t) - b)

\* LEADING_INDEX.sub("", s): separators, digits, separators at the start go
LEADING_INDEX(s) ==
  LET a == SpanLen(s, 1, SepChars)
      d == SpanLen(s, a + 1, DigitChars)
      b == SpanLen(s, a + d + 1, SepChars)
  IN  IF d = 0 THEN s ELSE Slice(s, a + d + b + 1, Len(s))

normalize_stem(stem) == Lower(LEADING_INDEX(Strip(EXT_STRIP(stem))))

\* (?i)(?<![a-z0-9])lit(?![a-z0-9]) matches at position p of s
WordAt(s, lit, p) ==
  /\ At(Lower(s), lit, p)
  /\ p = 1 \/ NotAlnum(s[p - 1])
  /\ p + Len(lit) > Len(s) \/ NotAlnum(s[p + Len(lit)])

\* the pattern above matches somewhere in s
WordIn(s, lit) == \E p \in 1..Len(s) : WordAt(s, lit, p)

\* (?i)(?<![a-z0-9])ep2d[^a-z0-9]*bold[^a-z0-9]*tr(?![a-z0-9]) matches in s
Ep2dBoldIn(s, tr) ==
  \E p \in 1..Len(s) :
    LET l == Lower(s)
        q == p + 4 + SpanLen(s, p + 4, NotAlnumChars)
        r == q + 4 + SpanLen(s, q + 4, NotAlnumChars)
    IN  /\ p = 1 \/ NotAlnum(s[p - 1])
        /\ At(l, P_ep2d, p)
        /\ At(l, S_bold, q)
        /\ At(l, tr, r)
        /\ r + Len(tr) > Len(s) \/ NotAlnum(s[r + Len(tr)])

\* [label for label, pat in SEQ_PATTERNS if pat.search(name)]
SeqMatches(name) ==
  (IF WordIn(name, P_vaso) THEN << P_vaso >> ELSE << >>)
  \o (IF WordIn(name, P_3dbssfp) \/ WordIn(name, P_bssfp) THEN << P_bssfp >> ELSE << >>)
  \o (IF Ep2dBoldIn(name, P_2000) THEN << P_ep2d_bold_2000 >> ELSE << >>)
  \o (IF Ep2dBoldIn(name, P_800) THEN << P_ep2d_bold_800 >> ELSE << >>)
  \o (IF WordIn(name, P_mprage) THEN << P_mprage >> ELSE << >>)

parse_sequence(name) ==
  IF SeqMatches(name) = << >> THEN P_unknownseq ELSE SeqMatches(name)[1]

parse_modality(name) ==
  IF WordIn(name, S_task) THEN S_task
  ELSE IF WordIn(name, P_rs) THEN P_rs
  ELSE IF WordIn(name, P_test) THEN P_test
  ELSE P_prep

\* (?:^|[_-])run[-_]? with "run" at position p of s: where the digits begin
RunDigitsAt(s, p) ==
  IF p + 3 <= Len(s) /\ s[p + 3] \in {"-", "_"} THEN p + 4 ELSE p + 3

\* "run" stands at p after the start of s or after "_" or "-"
RunTokenAt(s, p) ==
  /\ At(Lower(s), P_run, p)
  /\ p = 1 \/ s[p - 1] \in {"_", "-"}

\* RUN_EXPLICIT_END matches with "run" at p: one or two digits, then the end
RunEndAt(s, p) ==
  LET q == RunDigitsAt(s, p)
      n == SpanLen(s, q, DigitChars)
  IN  RunTokenAt(s, p) /\ n \in {1, 2} /\ q + n - 1 = Len(s)

\* RUN_ANY matches with "run" at p: one or two digits, then \b
RunAnyAt(s, p) ==
  LET q == RunDigitsAt(s, p)
      n == SpanLen(s, q, DigitChars)
  IN  RunTokenAt(s, p) /\ n \in {1, 2} /\ (q + n > Len(s) \/ ~IsWord(s[q + n]))

\* int(m.group(1)) of the match with "run" at p
RunValue(s, p) ==
  LET q == RunDigitsAt(s, p)
  IN  IntOf(Slice(s, q, q + SpanLen(s, q, DigitChars) - 1))

\* the run label of a stem, << >> for None
parse_run(name) ==
  LET ends == {p \in 1..Len(name) : RunEndAt(name, p)}
      anys == {p \in 1..Len(name) : RunAnyAt(name, p)}
      first == CHOOSE p \in ends : \A q \in ends : p <= q
      last == CHOOSE p \in anys : \A q \in anys : q <= p
  IN  IF ends # {} THEN RunLabel(RunValue(name, first))
      ELSE IF anys # {} THEN RunLabel(RunValue(name, last))
      ELSE << >>

(***************************************************************************)
(* copy2bids.py: the file materializer.                                    *)
(*                                                                         *)
(* The destination tree is fs = [entries, dirs, source]: entries maps a    *)
(* destination path << section, file name >> to what stands there,         *)
(*   [kind |-> "file"]                  a regular file of its own,         *)
(*   [kind |-> "hardlink", to |-> p]    a second name of the source file p,*)
(*   [kind |-> "symlink", to |-> p]     a relative link to the path p;     *)
(* dirs holds the section folders that exist, source the source root.      *)
(* File contents are not part of the model.                                *)
(***************************************************************************)
Entry(kind, to) == [kind |-> kind, to |-> to]

\* dst.exists(): it follows symbolic links, a dangling one does not exist
Exists(fs, dst) ==
  /\ dst \in DOMAIN fs.entries
  /\ fs.entries[dst].kind = "symlink" => fs.entries[dst].to \in fs.source

\* dst.unlink()
Unlink(fs, dst) ==
  [fs EXCEPT !.entries = [p \in DOMAIN fs.entries \ {dst} |-> fs.entries[p]]]

\* the entry e now stands at dst
Put(fs, dst, e) ==
  [fs EXCEPT !.entries =
     [p \in DOMAIN fs.entries \cup {dst} |-> IF p = dst THEN e ELSE fs.entries[p]]]

\* os.link(src, dst) and os.symlink(rel, dst): FileExistsError when any entry,
\* a dangling link included, stands at dst
MakeLink(fs, src, dst, kind) ==
  IF dst \in DOMAIN fs.entries
  THEN [fs |-> fs, exc |-> TRUE]
  ELSE [fs |-> Put(fs, dst, Entry(kind, src)), exc |-> FALSE]

\* shutil.copy2(src, dst): SameFileError when dst is src itself; it writes
\* through a link that stands at dst, and so creates the file a dangling
\* link points to
Copy2(fs, src, dst) ==
  IF dst \notin DOMAIN fs.entries
  THEN [fs |-> Put(fs, dst, Entry("file", src)), exc |-> FALSE]
  ELSE LET e == fs.entries[dst]
       IN  CASE e.kind = "file" ->
                  [fs |-> Put(fs, dst, Entry("file", src)), exc |-> FALSE]
             [] e.kind # "file" /\ e.to = src -> [fs |-> fs, exc |-> TRUE]
             [] e.kind = "hardlink" /\ e.to # src -> [fs |-> fs, exc |-> FALSE]
             [] e.kind = "symlink" /\ e.to # src ->
                  [fs |-> [fs EXCEPT !.source = @ \cup {e.to}], exc |-> FALSE]

\* the link branches: "if dst.exists(): dst.unlink()", then the link
Relink(fs, src, dst, kind) ==
  MakeLink(IF Exists(fs, dst) THEN Unlink(fs, dst) ELSE fs, src, dst, kind)

\* [fs |-> the tree afterwards, exc |-> an exception was raised]
copy_file(fs, src, dst, method, dry) ==
  IF dry THEN [fs |-> fs, exc |-> FALSE]
  ELSE LET made == [fs EXCEPT !.dirs = @ \cup {dst[1]}]
       IN  CASE method = "copy" -> Copy2(made, src, dst)
             [] method = "link" -> Relink(made, src, dst, "hardlink")
             [] method = "symlink" -> Relink(made, src, dst, "symlink")

(***************************************************************************)
(* copy2bids.py: the Naming Engine and copy_section_list.                  *)
(***************************************************************************)
\* args.subject and args.session of the model's command lines
Subject == << "0", "1" >>

Session == << "0", "1" >>

SectionName ==
  [s \in {"anat", "func", "fmap"} |->
     CASE s = "anat" -> << "a", "n", "a", "t" >>
       [] s = "func" -> << "f", "u", "n", "c" >>
       [] s = "fmap" -> << "f", "m", "a", "p" >>]

P_none == << "n", "o", "n", "e" >>

P_revpe == << "_", "r", "e", "v", "p", "e" >>

P_task_unk_run == << "t", "a", "s", "k", "-", "u", "n", "k", "_", "r", "u", "n", "-" >>

P_fmap == << "f", "m", "a", "p" >>

K_bids_func_idx == << "b", "i", "d", "s", "_", "f", "u", "n", "c", "_", "i", "d", "x" >>

K_bids_fmap_idx == << "b", "i", "d", "s", "_", "f", "m", "a", "p", "_", "i", "d", "x" >>

\* a_b
Us(a, b) == a \o << "_" >> \o b

\* the key without the modality: one counter per section and sequence
CounterKey_no_mod(section, seq, mod) ==
  SectionName[section] \o << ":" >> \o seq

\* f"{section}:{seq}:{mod or 'none'}"; mod is << >> for None
CounterKey(section, seq, mod) ==
  SectionName[section] \o << ":" >> \o seq \o << ":" >>
    \o (IF mod # << >> THEN mod ELSE P_none)

\* the custom output stem of a section
CustomStem(section, seq, mod, run) ==
  CASE section = "func" -> Us(Us(Us(Us(Subject, Session), seq), mod), run)
    [] section = "anat" -> Us(Us(Us(Subject, Session), seq), run)
    [] section = "fmap" -> Us(Us(Us(Subject, Session), seq), run) \o P_revpe

\* counters.setdefault(key, 0); counters[key] += 1
Bump(counters, key) == DictSet(counters, key, DictGetOr(counters, key, 0) + 1)

\* the run of a series whose stem parses to seq, mod (<< >> for None) and
\* explicit_run (<< >> for None): [counters, run, out |-> out_stem_custom]
ResolveRun(counters, section, seq, mod, explicit_run) ==
  IF explicit_run = << >>
  THEN [counters |-> Bump(counters, CounterKey(section, seq, mod)),
        run |-> RunLabel(DictGet(Bump(counters, CounterKey(section, seq, mod)),
                                 CounterKey(section, seq, mod))),
        out |-> CustomStem(section, seq, mod,
                  RunLabel(DictGet(Bump(counters, CounterKey(section, seq, mod)),
                                   CounterKey(section, seq, mod))))]
  ELSE [counters |-> counters, run |-> explicit_run,
        out |-> CustomStem(section, seq, mod, explicit_run)]

\* the custom branch for the normalized stem n
CustomNamingOf(counters, n, section) ==
  ResolveRun(counters, section, parse_sequence(n),
             IF section = "func" THEN parse_modality(n) ELSE << >>,
             parse_run(n))

\* the custom branch for one stem
CustomNaming(counters, stem, section) ==
  CustomNamingOf(counters, normalize_stem(stem), section)

\* bids_suffix_for(section): [counters, run, out |-> out_suffix_bids]
BidsNaming(counters, section) ==
  LET kf == DictGetOr(counters, K_bids_func_idx, 0) + 1
      km == DictGetOr(counters, K_bids_fmap_idx, 0) + 1
  IN  CASE section = "anat" -> [counters |-> counters, run |-> << >>, out |-> S_T1w]
        [] section = "func" ->
             [counters |-> DictSet(counters, K_bids_func_idx, kf), run |-> << >>,
              out |-> P_task_unk_run \o Fmt02(kf) \o << "_" >> \o S_bold]
        [] section = "fmap" ->
             [counters |-> DictSet(counters, K_bids_fmap_idx, km), run |-> << >>,
              out |-> P_fmap \o Fmt02(km)]

\* what copy_section_list computes once per series
Naming(counters, stem, section, filenaming) ==
  CASE filenaming = "custom" -> CustomNaming(counters, stem, section)
    [] filenaming = "bids" -> BidsNaming(counters, section)
    [] filenaming = "preserve" -> [counters |-> counters, run |-> << >>, out |-> << >>]

\* find_file(source, stem, ext): the set of matches[0], empty for None; when
\* two folders hold the name, rglob's order decides, here pref
find_file(src, stem, ext, pref) ==
  LET matches == {p \in src : p.name = stem \o ext}
  IN  IF matches = {} THEN {}
      ELSE IF \E p \in matches : p.dir = pref
      THEN {CHOOSE p \in matches : p.dir = pref}
      ELSE {CHOOSE p \in matches : TRUE}

\* the output file name of one extension
OutName(filenaming, nm, src, ext) ==
  CASE filenaming = "preserve" -> src.name
    [] filenaming = "custom" -> nm.out \o ext
    [] filenaming = "bids" -> Us(Us(Subject, Session), nm.out) \o ext

\* copy_file(src, dst, method, dry) in the loop over the extensions, over
\* st = [counters, fs, named, calls, missing, exc]
place_file(st, stem, src, dst, cfg) ==
  [st EXCEPT !.fs = copy_file(st.fs, src, dst, cfg.method, cfg.dry).fs,
             !.exc = copy_file(st.fs, src, dst, cfg.method, cfg.dry).exc,
             !.calls = Append(@, [stem |-> stem, src |-> src, dst |-> dst])]

\* one iteration of "for ext in (".nii.gz", ".json")"; nothing more is done
\* once an exception was raised
place_ext(st, stem, section, nm, ext, pref, cfg) ==
  IF st.exc THEN st
  ELSE IF find_file(st.fs.source, stem, ext, pref) = {}
  THEN [st EXCEPT !.missing = Append(@, stem \o ext)]
  ELSE \* the one element of the set is src
       LET src == CHOOSE p \in find_file(st.fs.source, stem, ext, pref) : TRUE
       IN  place_file(st, stem, src,
                      << section, OutName(cfg.filenaming, nm, src, ext) >>, cfg)

\* the rest of an iteration of "for stem in stems", nm being what was
\* computed once for the series
place_named(st, stem, section, nm, pref1, pref2, cfg) ==
  place_ext(
    place_ext(
      [st EXCEPT !.counters = nm.counters,
                 !.named = Append(@, [section |-> section, stem |-> stem,
                                      run |-> nm.run])],
      stem, section, nm, S_nii_gz, pref1, cfg),
    stem, section, nm, S_json, pref2, cfg)

\* one iteration of "for stem in stems" of copy_section_list
place_stem(st, stem, section, pref1, pref2, cfg) ==
  IF stem = << >> THEN st
  ELSE place_named(st, stem, section,
                   Naming(st.counters, stem, section, cfg.filenaming),
                   pref1, pref2, cfg)

(***************************************************************************)
(* The command lines and the inputs of the model.                          *)
(***************************************************************************)
\* --force-task: absent (None, written << >>: the code only tests its truth)
\* or "Vision"
ForceTaskArgs == { << >>, << "V", "i", "s", "i", "o", "n" >> }

\* rest=motor
R_rest_motor == << "r", "e", "s", "t", "=", "m", "o", "t", "o", "r" >>

\* motor=go
R_motor_go == << "m", "o", "t", "o", "r", "=", "g", "o" >>

\* Rest=rest
R_Rest_rest == << "R", "e", "s", "t", "=", "r", "e", "s", "t" >>

\* go (no "=")
R_go == << "g", "o" >>

RenameUniverse == { R_rest_motor, R_motor_go, R_Rest_rest, R_go }

\* the lists args.task_rename may hold (None is the empty list: the code
\* only tests "not pairs")
RenameArgs ==
  UNION { [1..n -> RenameUniverse] : n \in 0..MaxRenames }

\* the source roots of the first stage: at most MaxFiles files, one folder
SourceRoots ==
  { {Path("d1", f) : f \in S} :
      S \in {T \in SUBSET FileUniverse : Cardinality(T) <= MaxFiles} }

Sections == << "anat", "func", "fmap" >>

Methods == {"copy", "link", "symlink"}

Filenamings == {"preserve", "custom", "bids"}

Dirs == {"d1", "d2"}

\* 10_vaso_rs
Q_vaso_rs_10 == << "1", "0", "_", "v", "a", "s", "o", "_", "r", "s" >>

\* 12_vaso_rs
Q_vaso_rs_12 == << "1", "2", "_", "v", "a", "s", "o", "_", "r", "s" >>

\* 14_vaso_task
Q_vaso_task == << "1", "4", "_", "v", "a", "s", "o", "_", "t", "a", "s", "k" >>

\* vaso_rs_run-01
Q_vaso_run == << "v", "a", "s", "o", "_", "r", "s", "_", "r", "u", "n", "-", "0", "1" >>

\* mprage
Q_mprage == << "m", "p", "r", "a", "g", "e" >>

\* the stems a hand-written flat mapping of the model may list
PlaceStems == { Q_vaso_rs_10, Q_vaso_rs_12, Q_vaso_task, Q_vaso_run, Q_mprage }

\* the source root of the placement runs: every series has its data file,
\* 12_vaso_rs has no sidecar, 14_vaso_task has no file at all
PlaceSource ==
  {Path("d1", s \o S_nii_gz) : s \in PlaceStems \ {Q_vaso_task}}
    \cup {Path("d1", s \o S_json) : s \in PlaceStems \ {Q_vaso_task, Q_vaso_rs_12}}

\* the stems of the mappings of the runs that place over an old destination
CopyStems == { Q_vaso_rs_10, Q_vaso_run, << >> }

CopySource == {Path("d1", Q_vaso_rs_10 \o S_nii_gz), Path("d1", Q_vaso_run \o S_nii_gz)}

\* the lists of at most n stems of U
StemLists(U, n) == UNION { [1..k -> U] : k \in 0..n }

\* the flat mappings with at most n stems of U over the three sections
FlatMappings(U, n) ==
  UNION { UNION { { [anat |-> a, func |-> f, fmap |-> g] :
                      g \in StemLists(U, n - Len(a) - Len(f)) } :
                  f \in StemLists(U, n - Len(a)) } :
          a \in StemLists(U, n) }

EmptyLists == [s \in {"anat", "func", "fmap"} |-> << >>]

(***************************************************************************)
(* State.                                                                  *)
(***************************************************************************)
VARIABLES
  pc,             \* where main() of either stage stands
  source,         \* the source root: the set of the paths of its files
  force_task,     \* args.force_task
  fpaths,         \* the list scan_source returned
  idx,            \* the position of categorise's loop in fpaths
  mapping,        \* categorise's mapping
  run_counters,   \* categorise's per-task counters
  pending_sbref,  \* categorise's pending paired reference, << >> for None
  renames,        \* the dict parse_task_renames returned
  ridx,           \* the position of apply_task_renames' loop in renames
  warnings,       \* what apply_task_renames printed
  out_file,       \* the mapping file as written, << >> before
  lists,          \* copy2bids: anat_list, func_list, fmap_list as iterated
  sec,            \* which of the three copy_section_list calls runs
  pos,            \* the position of its loop in the section's list
  counters,       \* the counters table of the pass
  entries,        \* the destination tree: path -> entry
  dirs,           \* the section folders of the destination tree
  filenaming,     \* args.filenaming
  method,         \* args.method
  dry,            \* args.dry
  named,          \* the run label computed for each series of the pass
  calls,          \* the copy_file calls of the pass
  missing,        \* the "WARNING - missing file" lines of the pass
  passes          \* how many times copy2bids was started

stage1 ==
  << force_task, fpaths, idx, mapping, run_counters, pending_sbref, renames,
     ridx, warnings, out_file >>

stage2 ==
  << lists, sec, pos, counters, entries, dirs, filenaming, method, dry, named,
     calls, missing, passes >>

vars == << pc, source, stage1, stage2 >>

\* the first stage before it starts
Stage1Idle ==
  /\ fpaths = << >>
  /\ idx = 1
  /\ mapping = << >>
  /\ run_counters = << >>
  /\ pending_sbref = << >>
  /\ renames = << >>
  /\ ridx = 1
  /\ warnings = << >>
  /\ out_file = << >>

\* a pass of copy2bids before its first series, over an empty destination
Stage2Fresh ==
  /\ sec = 1
  /\ pos = 1
  /\ counters = << >>
  /\ entries = << >>
  /\ dirs = {}
  /\ named = << >>
  /\ calls = << >>
  /\ missing = << >>

\* generate_bids_config.py is started on a source root; copy2bids.py will
\* be run as its last message says, with the defaults of every option
Init ==
  /\ pc = "scan"
  /\ source \in SourceRoots
  /\ force_task \in ForceTaskArgs
  /\ Stage1Idle
  /\ Stage2Fresh
  /\ lists = EmptyLists
  /\ filenaming = "custom"
  /\ method = "copy"
  /\ dry = FALSE
  /\ passes = 0

(***************************************************************************)
(* generate_bids_config.py: main.                                          *)
(***************************************************************************)
\* scan_source(args.source): the sorted list, or the TypeError of sorted()
ScanSource ==
  /\ pc = "scan"
  /\ IF SortRaises(Globbed(source))
     THEN pc' = "raised" /\ fpaths' = fpaths
     ELSE pc' = "categorise" /\ fpaths' = SortedByKey(Globbed(source))
  /\ UNCHANGED << source, force_task, idx, mapping, run_counters,
                  pending_sbref, renames, ridx, warnings, out_file, stage2 >>

\* one iteration of "for f in fpaths" in categorise
CategoriseStep ==
  /\ pc = "categorise"
  /\ idx <= Len(fpaths)
  /\ \E st \in {categorise_file(
                   [mapping |-> mapping, run_counters |-> run_counters,
                    pending_sbref |-> pending_sbref, exc |-> FALSE],
                   fpaths[idx], force_task)} :
         /\ mapping' = st.mapping
         /\ run_counters' = st.run_counters
         /\ pending_sbref' = st.pending_sbref
         /\ pc' = IF st.exc THEN "raised" ELSE "categorise"
  /\ idx' = idx + 1
  /\ UNCHANGED << source, force_task, fpaths, renames, ridx, warnings,
                  out_file, stage2 >>

\* categorise returns; renames = parse_task_renames(args.task_rename)
ParseTaskRenames ==
  /\ pc = "categorise"
  /\ idx > Len(fpaths)
  /\ \E pairs \in RenameArgs :
       \E r \in {parse_task_renames(pairs)} :
           /\ pc' = IF r.exit THEN "exit" ELSE "apply"
           /\ renames' = r.renames
  /\ UNCHANGED << source, force_task, fpaths, idx, mapping, run_counters,
                  pending_sbref, ridx, warnings, out_file, stage2 >>

\* apply_task_renames returns at once
ApplyReturnEarly ==
  /\ pc = "apply"
  /\ renames = << >> \/ ~DictHas(mapping, "func")
  /\ pc' = "dump"
  /\ UNCHANGED << source, stage1, stage2 >>

\* one iteration of "for old, new in list(renames.items())"
ApplyRenameStep ==
  /\ pc = "apply"
  /\ renames # << >> /\ DictHas(mapping, "func")
  /\ ridx <= Len(renames)
  /\ \E st \in {apply_rename([mapping |-> mapping, warnings |-> warnings],
                              renames[ridx].k, renames[ridx].v)} :
         /\ mapping' = st.mapping
         /\ warnings' = st.warnings
  /\ ridx' = ridx + 1
  /\ pc' = IF ridx = Len(renames) THEN "dump" ELSE "apply"
  /\ UNCHANGED << source, force_task, fpaths, idx, run_counters,
                  pending_sbref, renames, out_file, stage2 >>

\* the mapping is dumped, the user confirms (or --no-prompt), it is written.
\* yaml.safe_dump(dict(mapping), sort_keys=False) keeps the nesting and the
\* order of the keys and quotes every string that would read back as
\* another type, so the document safe_load returns is the mapping itself:
\* out_file holds it as the dict it reads back as
WriteMapping ==
  /\ pc = "dump"
  /\ pc' = "written"
  /\ out_file' = mapping
  /\ UNCHANGED << source, force_task, fpaths, idx, mapping, run_counters,
                  pending_sbref, renames, ridx, warnings, stage2 >>

\* the user answers no: "Aborted - no file written."
AbortWrite ==
  /\ pc = "dump"
  /\ pc' = "exit"
  /\ UNCHANGED << source, stage1, stage2 >>

(***************************************************************************)
(* copy2bids.py: main.                                                     *)
(***************************************************************************)
\* "for stem in stems" over a section of the mapping file the first stage
\* wrote: the section is a dict, and iterating a dict yields its keys
Iterated(doc, section) == DictKeys(DictGetOr(doc, section, << >>))

\* mapping = load_mapping(args.config); the three lists; counters = {}
LoadMapping ==
  /\ pc = "written"
  /\ pc' = "place"
  /\ lists' = [s \in {"anat", "func", "fmap"} |-> Iterated(out_file, s)]
  /\ passes' = passes + 1
  /\ UNCHANGED << source, stage1, sec, pos, counters, entries, dirs,
                  filenaming, method, dry, named, calls, missing >>

\* one iteration of "for stem in stems" in copy_section_list
PlaceStem ==
  /\ pc = "place"
  /\ pos <= Len(lists[Sections[sec]])
  /\ \E pref1 \in Dirs, pref2 \in Dirs :
       \E st \in {place_stem(
                     [counters |-> counters,
                      fs |-> [entries |-> entries, dirs |-> dirs, source |-> source],
                      named |-> named, calls |-> calls, missing |-> missing,
                      exc |-> FALSE],
                     lists[Sections[sec]][pos], Sections[sec], pref1, pref2,
                     [filenaming |-> filenaming, method |-> method, dry |-> dry])} :
           /\ counters' = st.counters
           /\ entries' = st.fs.entries
           /\ dirs' = st.fs.dirs
           /\ source' = st.fs.source
           /\ named' = st.named
           /\ calls' = st.calls
           /\ missing' = st.missing
           /\ pc' = IF st.exc THEN "raised" ELSE "place"
  /\ pos' = pos + 1
  /\ UNCHANGED << stage1, lists, sec, filenaming, method, dry, passes >>

\* a copy_section_list call returns; after the third, main prints and ends
EndSection ==
  /\ pc = "place"
  /\ pos > Len(lists[Sections[sec]])
  /\ IF sec < 3
     THEN pc' = "place" /\ sec' = sec + 1 /\ pos' = 1
     ELSE pc' = "done" /\ sec' = sec /\ pos' = pos
  /\ UNCHANGED << source, stage1, lists, counters, entries, dirs, filenaming,
                  method, dry, named, calls, missing, passes >>

\* copy2bids.py is started again with the same mapping and destination
Rerun ==
  /\ pc \in {"done", "raised"}
  /\ passes < MaxPasses
  /\ pc' = "place"
  /\ passes' = passes + 1
  /\ method' \in Methods
  /\ sec' = 1
  /\ pos' = 1
  /\ counters' = << >>
  /\ named' = << >>
  /\ calls' = << >>
  /\ missing' = << >>
  /\ UNCHANGED << source, stage1, lists, entries, dirs, filenaming, dry >>

\* between two runs a file of the source root is moved to another folder of
\* the root: hard links follow the file, symbolic links keep the old path
MoveSource ==
  /\ pc \in {"done", "raised"}
  /\ passes < MaxPasses
  /\ \E p \in source, d \in Dirs :
       /\ Path(d, p.name) \notin source
       /\ source' = (source \ {p}) \cup {Path(d, p.name)}
       /\ entries' = [q \in DOMAIN entries |->
                        IF entries[q].kind = "hardlink" /\ entries[q].to = p
                        THEN [entries[q] EXCEPT !.to = Path(d, p.name)]
                        ELSE entries[q]]
  /\ UNCHANGED << pc, stage1, lists, sec, pos, counters, dirs, filenaming,
                  method, dry, named, calls, missing, passes >>

Next ==
  \/ ScanSource
  \/ CategoriseStep
  \/ ParseTaskRenames
  \/ ApplyReturnEarly
  \/ ApplyRenameStep
  \/ WriteMapping
  \/ AbortWrite
  \/ LoadMapping
  \/ PlaceStem
  \/ EndSection

\* both stages, the second run on what the first wrote
Spec == Init /\ [][Next]_vars

\* copy2bids.py with the defaults of its options on a hand-written flat
\* mapping, over an empty destination
InitPlace ==
  /\ pc = "place"
  /\ source = PlaceSource
  /\ force_task = << >>
  /\ Stage1Idle
  /\ Stage2Fresh
  /\ lists \in FlatMappings(PlaceStems, MaxStems)
  /\ filenaming = "custom"
  /\ method = "copy"
  /\ dry = FALSE
  /\ passes = 1

NextPlace ==
  \/ PlaceStem
  \/ EndSection

SpecPlace == InitPlace /\ [][NextPlace]_vars

\* copy2bids.py with any options, run again and again over its destination
InitCopy ==
  /\ pc = "place"
  /\ source = CopySource
  /\ force_task = << >>
  /\ Stage1Idle
  /\ Stage2Fresh
  /\ lists \in FlatMappings(CopyStems, MaxCopyStems)
  /\ filenaming \in Filenamings
  /\ method \in Methods
  /\ dry \in BOOLEAN
  /\ passes = 1

NextCopy ==
  \/ PlaceStem
  \/ EndSection
  \/ Rerun
  \/ MoveSource

SpecCopy == InitCopy /\ [][NextCopy]_vars

(***************************************************************************)
(* What a mapping records, and what the scan has read so far.              *)
(***************************************************************************)
RECURSIVE Concat(_)
\* the lists of a list, one after the other
Concat(ss) == IF ss = << >> THEN << >> ELSE Head(ss) \o Concat(Tail(ss))

\* how many times x stands in the list s
Count(s, x) == Cardinality({j \in 1..Len(s) : s[j] = x})

\* the series of the anat section: the elements of the lists of its labels
AnatSeries(mp) == Concat(DictValues(DictGetOr(mp, "anat", << >>)))

\* the runs of the func section, task after task
FuncRuns(mp) ==
  Concat([j \in 1..Len(DictGetOr(mp, "func", << >>)) |->
            DictValues(DictGetOr(mp, "func", << >>)[j].v)])

\* the series the runs of the func section give as "bold"
FuncSeries(mp) == [j \in 1..Len(FuncRuns(mp)) |-> DictGet(FuncRuns(mp)[j], S_bold)]

\* the series the runs of the func section give as "sbref"
FuncRefs(mp) ==
  {DictGet(r, S_sbref) : r \in {q \in Range(FuncRuns(mp)) : DictHas(q, S_sbref)}}

\* the series of the fmap section: the values of the roles of its types
FmapSeries(mp) ==
  Concat([j \in 1..Len(DictGetOr(mp, "fmap", << >>)) |->
            DictValues(DictGetOr(mp, "fmap", << >>)[j].v)])

\* every series a mapping records in a section of its own
Recorded(mp) == AnatSeries(mp) \o FuncSeries(mp) \o FmapSeries(mp)

\* the file names categorise's loop has gone through
Seen == [j \in 1..(idx - 1) |-> fpaths[j].name]

\* a file name no rule sets aside and a section rule matches
Classified(fname) ==
  /\ ~SKIP_PATTERNS(fname)
  /\ ~SBREF_PAT(fname)
  /\ GUESS_anat(fname) \/ GUESS_func(fname) \/ GUESS_fmap(fname)

(***************************************************************************)
(* The order of the rules.                                                 *)
(***************************************************************************)
\* C3: a file name that matches the field-map pattern, is not skipped and is
\* no paired reference is placed by categorise in the fmap section and in
\* no other, also when the anatomical or the functional pattern matches it
\* (the field-map rule is tried before those two).
C3_FieldMapBeforeAnatFunc ==
  pc = "categorise" =>
    \A j \in 1..Len(Seen) :
      (/\ ~SKIP_PATTERNS(Seen[j])
       /\ ~SBREF_PAT(Seen[j])
       /\ GUESS_fmap(Seen[j]))
        => /\ series_id(Seen[j]) \notin Range(AnatSeries(mapping))
           /\ series_id(Seen[j]) \notin Range(FuncSeries(mapping))

(***************************************************************************)
(* No classified series is lost, none is recorded twice.                   *)
(***************************************************************************)
\* C10: every file categorise has gone through that is not skipped, is no
\* paired reference and matches the anatomical, functional or field-map
\* rule has its stem in the mapping: no later series takes the place of an
\* earlier one.
C10_ClassifiedSeriesKept ==
  pc = "categorise" =>
    \A j \in 1..Len(Seen) :
      Classified(Seen[j]) => series_id(Seen[j]) \in Range(Recorded(mapping))

\* C9: when the bare and the compressed file of one stem are both under the
\* source root, categorise records that stem at most once in the mapping.
C9_OneRecordPerStem ==
  pc = "categorise" =>
    \A i \in 1..Len(Seen), j \in 1..Len(Seen) :
      (/\ i # j
       /\ series_id(Seen[i]) = series_id(Seen[j])
       /\ EndsWith(Seen[i], S_nii)
       /\ EndsWith(Seen[j], S_nii_gz))
        => Count(Recorded(mapping), series_id(Seen[i])) <= 1


(***************************************************************************)
(* The paired reference.                                                   *)
(***************************************************************************)
\* the file among the first j - 1 that decides what is pending when the
\* j-th is read: the last paired reference or functional match, 0 if none
LastRefOrFunc(j) ==
  LET before == {i \in 1..(j - 1) : Section(Seen[i]) \in {"sbref", "func"}}
  IN  IF before = {} THEN 0
      ELSE CHOOSE i \in before : \A h \in before : h <= i

\* the run a functional match is to have: its own series as "bold" and, when
\* a reference was read after the last functional match, that reference
ExpectedRun(j) ==
  LET i == LastRefOrFunc(j)
      bold == << [k |-> S_bold, v |-> series_id(Seen[j])] >>
  IN  IF i # 0 /\ Section(Seen[i]) = "sbref"
      THEN Append(bold, [k |-> S_sbref, v |-> series_id(Seen[i])])
      ELSE bold

\* the task of the j-th file, a functional match
TaskOfSeen(j) == TaskLabel(Seen[j], force_task).task

\* the run label of the j-th file: its rank among the functional matches of
\* its task so far
LabelOfSeen(j) ==
  RunLabel(Cardinality({i \in 1..j : /\ Section(Seen[i]) = "func"
                                     /\ TaskOfSeen(i) = TaskOfSeen(j)}))

\* C4: while categorise scans, a pending paired reference is attached as
\* "sbref" to the next functional match and to that run only: every run is
\* the "bold" of its file plus the reference read since the last functional
\* match, if any, and nothing else; no run exists beyond the functional
\* matches; a reference is never a series of a section on its own.
C4_RefToNextFuncOnly ==
  pc = "categorise" =>
    /\ \A j \in 1..Len(Seen) :
         Section(Seen[j]) = "func" =>
           /\ DictHas(DictGetOr(mapping, "func", << >>), TaskOfSeen(j))
           /\ DictHas(DictGet(DictGet(mapping, "func"), TaskOfSeen(j)), LabelOfSeen(j))
           /\ DictGet(DictGet(DictGet(mapping, "func"), TaskOfSeen(j)), LabelOfSeen(j))
                = ExpectedRun(j)
    /\ Len(FuncRuns(mapping))
         = Cardinality({j \in 1..Len(Seen) : Section(Seen[j]) = "func"})
    /\ \A j \in 1..Len(Seen) :
         Section(Seen[j]) = "sbref" =>
           series_id(Seen[j]) \notin Range(Recorded(mapping))

\* the scan read a reference and then two functional matches: the first run
\* has the reference, the second has none
C4_Witness ==
  /\ pc = "categorise"
  /\ Len(Seen) = 3
  /\ Section(Seen[1]) = "sbref"
  /\ Section(Seen[2]) = "func"
  /\ Section(Seen[3]) = "func"
  /\ FuncRefs(mapping) = {series_id(Seen[1])}
  /\ Cardinality({j \in 1..Len(FuncRuns(mapping)) :
                    DictHas(FuncRuns(mapping)[j], S_sbref)}) = 1

(***************************************************************************)
(* Task renames.                                                           *)
(***************************************************************************)
\* the tasks of the func section, {} when the mapping has none
FuncOf(mp) == DictGetOr(mp, "func", << >>)

\* the multiset of the run trees of a func section
TreeBag(func) ==
  [t \in Range(DictValues(func)) |-> Count(DictValues(func), t)]

\* C5: whenever the next rename request OLD=NEW names an OLD that is not a
\* task of the mapping's func section (the mapping may have no func section),
\* the step that deals with it prints the warning for OLD, leaves the mapping
\* as it is and goes on to the next request or to the dump.
C5_AbsentOldWarned ==
  [][(/\ pc = "apply"
      /\ ridx <= Len(renames)
      /\ ~DictHas(FuncOf(mapping), renames[ridx].k))
       => /\ warnings' = Append(warnings,
                                Warning("not in auto-mapping", renames[ridx].k))
          /\ mapping' = mapping
          /\ pc' \in {"apply", "dump"}]_vars

\* C6: a step of apply_task_renames keeps the number of tasks and the
\* multiset of run trees; when NEW is already a task it leaves the mapping
\* unchanged; otherwise, when OLD is a task, it moves the run tree of OLD to
\* NEW, removes OLD and keeps every other task; and the loop goes on to the
\* remaining pairs.
C6_RunTreesKept ==
  [][(pc = "apply" /\ ridx' = ridx + 1)
       => LET old == renames[ridx].k
              new == renames[ridx].v
              before == FuncOf(mapping)
              after == FuncOf(mapping')
          IN  /\ Len(after) = Len(before)
              /\ TreeBag(after) = TreeBag(before)
              /\ DictHas(before, new) => mapping' = mapping
              /\ (DictHas(before, old) /\ ~DictHas(before, new))
                   => /\ ~DictHas(after, old)
                      /\ DictHas(after, new)
                      /\ DictGet(after, new) = DictGet(before, old)
                      /\ \A e \in Range(before) : e.k # old => e \in Range(after)
              /\ pc' = IF ridx < Len(renames) THEN "apply" ELSE "dump"]_vars

\* a pair was refused because its NEW was a task, and a later pair of the
\* same list moved a run tree to a new name
C6_Witness ==
  /\ pc = "dump"
  /\ Len(renames) = 2
  /\ warnings = << Warning("merge aborted", renames[1].k) >>
  /\ DictHas(FuncOf(mapping), renames[2].v)
  /\ ~DictHas(FuncOf(mapping), renames[2].k)
  /\ Len(FuncOf(mapping)) = 2

(***************************************************************************)
(* From the builder to the driver.                                         *)
(***************************************************************************)
\* the series the written mapping records in a section
SeriesOf(mp, section) ==
  CASE section = "anat" -> Range(AnatSeries(mp))
    [] section = "func" -> Range(FuncSeries(mp)) \cup FuncRefs(mp)
    [] section = "fmap" -> Range(FmapSeries(mp))

\* C8: the stems copy2bids goes through for a section of the mapping the
\* builder wrote are series the builder recorded in that section, no label
\* among them, and every series recorded as data of the section is one of
\* them.
C8_BuilderMappingRoundTrips ==
  pc = "place" =>
    \A s \in {"anat", "func", "fmap"} :
      /\ Range(lists[s]) \subseteq SeriesOf(out_file, s)
      /\ SeriesOf(out_file, s) \ FuncRefs(out_file) \subseteq Range(lists[s])


(***************************************************************************)
(* Run numbers and output names of a placement pass.                       *)
(***************************************************************************)
\* what the token parsers read in each stem a mapping of the model may list
Parsed ==
  [s \in PlaceStems \cup CopyStems |->
     [seq |-> parse_sequence(normalize_stem(s)),
      mod |-> parse_modality(normalize_stem(s)),
      run |-> parse_run(normalize_stem(s))]]

\* the (section, sequence, modality) of a series of the pass, the modality
\* being << >> outside func
KeyOfNamed(e) ==
  << e.section, Parsed[e.stem].seq,
     IF e.section = "func" THEN Parsed[e.stem].mod ELSE << >> >>

\* the stem of the series carries no run token
NoRunToken(e) == Parsed[e.stem].run = << >>

\* C1: in a pass under the custom policy, a series without a run token gets
\* as run number its rank among the series without a run token that share
\* its (section, sequence, modality) so far: 1, 2, 3, ... per key in
\* processing order, whatever series of other keys, or series with a run
\* token, stand in between.
C1_RunCountersPerKey ==
  filenaming = "custom" =>
    LET key == [j \in 1..Len(named) |-> KeyOfNamed(named[j])]
        counted == {j \in 1..Len(named) : NoRunToken(named[j])}
    IN  \A j \in counted :
          named[j].run =
            RunLabel(Cardinality({i \in counted : i <= j /\ key[i] = key[j]}))

\* a pass numbered two series of one key 1 and 2, then restarted at 1 for a
\* series of the same section and sequence with another modality
C1_Witness ==
  /\ pc = "done"
  /\ filenaming = "custom"
  /\ Len(named) = 3
  /\ \A j \in 1..3 : NoRunToken(named[j]) /\ named[j].section = "func"
  /\ KeyOfNamed(named[1]) = KeyOfNamed(named[2])
  /\ KeyOfNamed(named[3]) # KeyOfNamed(named[1])
  /\ KeyOfNamed(named[3])[2] = KeyOfNamed(named[1])[2]
  /\ named[1].run = RunLabel(1)
  /\ named[2].run = RunLabel(2)
  /\ named[3].run = RunLabel(1)

\* C2: under the custom policy no two copy_file calls of a pass made for
\* different series of one section have the same destination (the same
\* output file name for the same extension).
C2_NoOutputNameCollision ==
  filenaming = "custom" =>
    \A i \in 1..Len(calls), j \in 1..Len(calls) :
      (calls[i].stem # calls[j].stem /\ calls[i].dst[1] = calls[j].dst[1])
        => calls[i].dst # calls[j].dst

(***************************************************************************)
(* Placing over an old destination.                                        *)
(***************************************************************************)
\* C7: with method link or symlink and no dry run, copy_file never fails
\* over an entry that already stands at the destination, a dangling
\* symbolic link included: no pass ends in its "already exists" error.
C7_LinkReplacesAnyEntry ==
  (method \in {"link", "symlink"} /\ ~dry) => pc # "raised"

=============================================================================
